---- MODULE Spec2Model ----
(***************************************************************************)
(* The "sync" command of the pandora tool (cmd/sync.go): Run calls         *)
(* SyncDirectory for the roots "images" and "uploads", SyncDirectory fans  *)
(* out one goroutine per directory entry, and UploadMetadata writes the    *)
(* manifest.  Go strings are sequences of one-character strings, so that   *)
(* a slice expression such as filename[len(config.ProjectRoot)+1:] cuts    *)
(* the bytes the code cuts.                                                *)
(***************************************************************************)
EXTENDS Integers, Sequences, FiniteSets, TLC

(***************************************************************************)
(* Bounds of the model.                                                    *)
(***************************************************************************)
\* keys in one call of DeleteObjects
MaxDeleteKeys == 2
\* number of consecutive runs of the sync command
MaxRuns == 2
\* objects per page of a ListObjectsV2 answer
PageSize == 1
\* calls that fail in a behaviour (a file or directory read, a gateway call)
MaxFaults == 1

(***************************************************************************)
(* Strings.                                                                *)
(***************************************************************************)
\* s[n:]
From(s, n) == SubSeq(s, n + 1, Len(s))

\* strings.HasPrefix
HasPrefix(s, p) == Len(p) <= Len(s) /\ SubSeq(s, 1, Len(p)) = p

\* strings.LastIndex for a one-byte separator: 0-based, -1 when absent
LastIndex(s, c) ==
    LET I == {k \in 1..Len(s) : s[k] = c}
    IN  IF I = {} THEN -1 ELSE (CHOOSE k \in I : \A j \in I : j <= k) - 1

UpperChars == <<"A","B","C","D","E","F","G","H","I","J","K","L","M",
                "N","O","P","Q","R","S","T","U","V","W","X","Y","Z">>
LowerChars == <<"a","b","c","d","e","f","g","h","i","j","k","l","m",
                "n","o","p","q","r","s","t","u","v","w","x","y","z">>

\* strings.ToLower
ToLower(s) ==
    [k \in 1..Len(s) |->
        IF \E j \in 1..Len(UpperChars) : UpperChars[j] = s[k]
        THEN LowerChars[CHOOSE j \in 1..Len(UpperChars) : UpperChars[j] = s[k]]
        ELSE s[k]]

\* filepath.Join of a clean directory and one name
Join(dir, name) == dir \o <<"/">> \o name

\* os.FileInfo.Name: the last element of the path
BaseName(path) == From(path, LastIndex(path, "/") + 1)

(***************************************************************************)
(* Program constants.                                                      *)
(***************************************************************************)
JPEG == <<"j","p","e","g">>
JPG  == <<"j","p","g">>
PNG  == <<"p","n","g">>
AVIF == <<"a","v","i","f">>
WEBP == <<"w","e","b","p">>
GIF  == <<"g","i","f">>
APNG == <<"a","p","n","g">>
SVG  == <<"s","v","g">>
BMP  == <<"b","m","p">>
supportExtensions == {JPEG, JPG, PNG, AVIF, WEBP, GIF, APNG, SVG, BMP}

BlurWidth == 8
ImageMetadataFile ==
    <<"i","m","a","g","e","s","/","m","e","t","a","d","a","t","a",".","j","s","o","n">>
Roots == << <<"i","m","a","g","e","s">>, <<"u","p","l","o","a","d","s">> >>

\* mutant: the extension is looked up as it is spelled
isSupportedImage_CaseSensitive(name) ==
    From(name, LastIndex(name, ".") + 1) \in supportExtensions

\* isSupportedImage, first result
isSupportedImage(name) ==
    ToLower(From(name, LastIndex(name, ".") + 1)) \in supportExtensions

(***************************************************************************)
(* The local tree under config.ProjectRoot, as os.Stat, os.ReadDir,        *)
(* DirEntry.Info and os.ReadFile report it.  ReadDir returns the entries   *)
(* sorted by file name.  A file's content is what bimg makes of it:        *)
(* "ok" (Size and Process succeed), "nosize" (Size fails) or "noprocess"   *)
(* (Size succeeds, Process fails), with the dimensions Size reports.       *)
(***************************************************************************)
ProjectRoot == <<"/","p">>

FileEntry(name, size, content, w, h) ==
    [name |-> name, isDir |-> FALSE, size |-> size, content |-> content,
     width |-> w, height |-> h]
DirEntry(name) ==
    [name |-> name, isDir |-> TRUE, size |-> 0, content |-> "none",
     width |-> 0, height |-> 0]

ImagesDir  == Join(ProjectRoot, Roots[1])
UploadsDir == Join(ProjectRoot, Roots[2])
SubDir     == Join(ImagesDir, <<"d">>)
HiddenDir  == Join(ImagesDir, <<".","h","d">>)

Tree ==
    (ImagesDir :> << FileEntry(<<".","h",".","j","p","g">>, 1, "ok", 8, 8),
                     DirEntry(<<".","h","d">>),
                     FileEntry(<<"a",".","j","p","g">>, 2, "ok", 16, 9),
                     DirEntry(<<"d">>),
                     FileEntry(<<"p","n","g">>, 1, "ok", 8, 8) >>)
    @@ (SubDir :> << FileEntry(<<"b",".","P","N","G">>, 1, "ok", 3, 4) >>)
    @@ (HiddenDir :> << FileEntry(<<"c",".","j","p","g">>, 1, "ok", 8, 8) >>)
    @@ (UploadsDir :> << FileEntry(<<"n",".","t","x","t">>, 0, "ok", 8, 8),
                         FileEntry(<<"x",".","g","i","f">>, 1, "nosize", 0, 0) >>)

Dirs == DOMAIN Tree
\* every entry of the tree, by its path
Paths == UNION {{Join(d, Tree[d][k].name) : k \in 1..Len(Tree[d])} : d \in Dirs}
FilePaths == Paths \ Dirs
\* the directory a path is an entry of
ParentTable ==
    [path \in Paths |->
        CHOOSE x \in Dirs : \E k \in 1..Len(Tree[x]) : Join(x, Tree[x][k].name) = path]
ParentOf(path) == ParentTable[path]
\* the directory entry at a path
EntryTable ==
    [path \in Paths |->
        LET d == ParentTable[path]
        IN  Tree[d][CHOOSE k \in 1..Len(Tree[d]) : Join(d, Tree[d][k].name) = path]]
EntryAt(path) == EntryTable[path]

(***************************************************************************)
(* The remote store.  An object is [key, size].  PutObject replaces the    *)
(* object of its key.  ListObjectsV2 answers in pages of PageSize objects  *)
(* in key order; which keys a prefix selects is the service's business:    *)
(* svcExact is the S3 rule (the key begins with the prefix, byte for       *)
(* byte), its negation a service for which a leading "/" of a key or of    *)
(* a prefix is not significant.                                            *)
(***************************************************************************)
Alphabet == <<".", "/">> \o UpperChars \o LowerChars
CharRank(c) == CHOOSE k \in 1..Len(Alphabet) : Alphabet[k] = c

RECURSIVE KeyLess(_, _)
KeyLess(s, t) ==
    IF t = <<>> THEN FALSE
    ELSE IF s = <<>> THEN TRUE
    ELSE IF Head(s) = Head(t) THEN KeyLess(Tail(s), Tail(t))
    ELSE CharRank(Head(s)) < CharRank(Head(t))

\* the objects in the order of their keys, as the service lists them
InKeyOrder(objs) ==
    [k \in 1..Cardinality(objs) |->
        CHOOSE o \in objs : Cardinality({x \in objs : KeyLess(x.key, o.key)}) = k - 1]

PutObject(objs, key, size) ==
    {o \in objs : o.key # key} \cup {[key |-> key, size |-> size]}

TrimSlash(s) == IF HasPrefix(s, <<"/">>) THEN From(s, 1) ELSE s

Selected(objs, prefix, exact) ==
    {o \in objs : IF exact THEN HasPrefix(o.key, prefix)
                  ELSE HasPrefix(TrimSlash(o.key), TrimSlash(prefix))}

\* a sequence cut into pieces of n elements, the last one shorter; one empty
\* piece for the empty sequence
Chunk(s, n) ==
    [k \in 1..(IF Len(s) = 0 THEN 1 ELSE (Len(s) + n - 1) \div n) |->
        SubSeq(s, (k - 1) * n + 1, IF k * n < Len(s) THEN k * n ELSE Len(s))]

\* the pages the service holds for a prefix: at least one, possibly empty
PagesOf(objs, prefix, exact) == Chunk(InKeyOrder(Selected(objs, prefix, exact)), PageSize)

\* what NextPage can return, call after call: the pages, or the pages up to a failure
Responses(objs, prefix, exact) ==
    LET pages == PagesOf(objs, prefix, exact)
        ok(k) == [j \in 1..k |-> [err |-> "nil", contents |-> pages[j]]]
    IN  {ok(Len(pages))}
        \cup {ok(k) \o <<[err |-> e, contents |-> <<>>]>> :
                 k \in 0..(Len(pages) - 1), e \in {"NoSuchBucket", "other"}}

\* mutant: a page error discards the objects of the pages before it
RECURSIVE ListObjects_NoPartial(_, _)
ListObjects_NoPartial(resp, objects) ==
    IF resp = <<>> THEN [objects |-> objects, err |-> "nil"]
    ELSE IF Head(resp).err # "nil" THEN [objects |-> <<>>, err |-> Head(resp).err]
    ELSE ListObjects_NoPartial(Tail(resp), objects \o Head(resp).contents)

\* BucketClient.ListObjects: the paginator loop over the answers of NextPage
RECURSIVE ListObjects(_, _)
ListObjects(resp, objects) ==
    IF resp = <<>> THEN [objects |-> objects, err |-> "nil"]
    ELSE IF Head(resp).err # "nil" THEN [objects |-> objects, err |-> Head(resp).err]
    ELSE ListObjects(Tail(resp), objects \o Head(resp).contents)

\* awsMetas[*obj.Key] = *obj.Size, object after object
RECURSIVE BuildIndex(_, _)
BuildIndex(objs, m) ==
    IF objs = <<>> THEN m
    ELSE BuildIndex(Tail(objs), PutObject(m, Head(objs).key, Head(objs).size))

\* awsMetas[key]: a Go map yields the zero value for an absent key
MapGet(m, key) ==
    IF \E o \in m : o.key = key THEN (CHOOSE o \in m : o.key = key).size ELSE 0

\* mutant: a lookup of an absent key adds the key with the zero value
AfterLookup_Inserts(m, key) ==
    IF \E o \in m : o.key = key THEN m ELSE m \cup {[key |-> key, size |-> 0]}

\* the map after awsMetas[key] was read: a Go map is not changed by a read
AfterLookup(m, key) == m

\* mutant: a file is uploaded only when it is larger than the remote object
Mismatch_OnlyLarger(size, m, key) == size > MapGet(m, key)

\* info.Size() != awsMetas[key]
Mismatch(size, m, key) == size # MapGet(m, key)

\* BucketClient.UploadObject's result from PutObject's and the waiter's
UploadObject(putErr, waitErr) ==
    IF putErr THEN "put" ELSE IF waitErr THEN "wait" ELSE "nil"

\* the prefix SyncDirectory lists, the key a file is uploaded and looked up
\* under, and the path its metadata carries
ListPrefix(directory) == From(directory, Len(ProjectRoot))
\* mutant: the key keeps the separator that follows the project root
UploadKey_WithSeparator(filename) == From(filename, Len(ProjectRoot))
UploadKey(filename) == From(filename, Len(ProjectRoot) + 1)
MetaPath(filename) == From(filename, Len(ProjectRoot))

\* mutant: the digest does not look at the file's path again
ReadImageMetadata_NoRecheck(file, key, e) ==
    IF e.content = "ok"
    THEN << [path |-> key, width |-> e.width, height |-> e.height,
             blurDataURL |-> [width |-> BlurWidth,
                              height |-> (e.height * BlurWidth) \div e.width]] >>
    ELSE <<>>

\* mutant: a file whose content does not decode gets an entry of zero size
ReadImageMetadata_EntryOnError(file, key, e) ==
    IF isSupportedImage(file)
    THEN IF e.content = "ok"
         THEN << [path |-> key, width |-> e.width, height |-> e.height,
                  blurDataURL |-> [width |-> BlurWidth,
                                   height |-> (e.height * BlurWidth) \div e.width]] >>
         ELSE << [path |-> key, width |-> 0, height |-> 0,
                  blurDataURL |-> [width |-> BlurWidth, height |-> 0]] >>
    ELSE <<>>

\* ReadImageMetadata: nil is <<>>, a pointer the one-element sequence
ReadImageMetadata(file, key, e) ==
    IF isSupportedImage(file)
    THEN IF e.content = "nosize" THEN <<>>
         ELSE IF e.content = "noprocess" THEN <<>>
         ELSE << [path |-> key, width |-> e.width, height |-> e.height,
                  blurDataURL |-> [width |-> BlurWidth,
                                   height |-> (e.height * BlurWidth) \div e.width]] >>
    ELSE <<>>

\* mutant: the drain stops after the first message
Flatten_FirstOnly(ss) == IF ss = <<>> THEN <<>> ELSE Head(ss)

\* "for result := range resultChan { metas = append(metas, result...) }"
RECURSIVE Flatten(_)
Flatten(ss) == IF ss = <<>> THEN <<>> ELSE Head(ss) \o Flatten(Tail(ss))

\* the stores a first run can meet: nothing, or what earlier runs left
\* (sizes in step, a stale size, a key written with its leading separator)
InitialStores ==
    { {},
      { [key |-> UploadKey(Join(ImagesDir, <<"a",".","j","p","g">>)), size |-> 2],
        [key |-> UploadKey(Join(SubDir, <<"b",".","P","N","G">>)), size |-> 1],
        [key |-> UploadKey(Join(UploadsDir, <<"n",".","t","x","t">>)), size |-> 1],
        [key |-> MetaPath(Join(ImagesDir, <<"a",".","j","p","g">>)), size |-> 2] } }

(***************************************************************************)
(* State.                                                                  *)
(***************************************************************************)
VARIABLES
    run,          \* which run of the command this is
    rpc,          \* Run's position: "sync", "meta", "done"
    rootIdx,      \* Run's loop over Roots
    metas,        \* Run's metas
    handed,       \* the metadata handed to UploadMetadata ("none" before)
    frame,        \* one SyncDirectory activation per directory
    task,         \* one goroutine per directory entry
    store,        \* the bucket's objects
    svcExact,     \* the service's prefix rule
    faults,       \* how many calls have failed so far
    prevFaults,   \* how many calls had failed when this run began
    manifest,     \* UploadMetadata's work in this run
    prevBody,     \* the manifest body the run before produced
    del           \* a call of BucketClient.DeleteObjects

vars == <<run, rpc, rootIdx, metas, handed, frame, task, store, svcExact,
          faults, prevFaults, manifest, prevBody, del>>

\* the outcomes the environment can give a call: failures while the bound
\* on them allows
MayFail == faults < MaxFaults
Outcomes(good, bad) == IF MayFail THEN good \cup bad ELSE good

IdleFrame ==
    [pc |-> "idle", i |-> 0, fail |-> "none", listed |-> FALSE, prefix |-> <<>>,
     listErr |-> "nil", awsMetas |-> {}, resultChan |-> <<>>, cap |-> 0, wg |-> 0,
     metas |-> <<>>]

\* the serialized manifest: encoding/json writes null for a nil slice and an
\* array for any other
Encode(metadata) ==
    [json |-> IF metadata = <<>> THEN "null" ELSE "array", items |-> metadata]

NoBody == [json |-> "none", items |-> <<>>]
NoManifest == [puts |-> 0, err |-> "none", body |-> NoBody]

\* no call of DeleteObjects has been made
IdleDelete ==
    [pc |-> "idle", calls |-> 0, keys |-> <<>>, apiErr |-> "nil", errors |-> <<>>,
     deleted |-> <<>>, waits |-> <<>>, err |-> "nil"]

IdleTask ==
    [st |-> "idle", read |-> "none", called |-> 0, upKey |-> <<>>, put |-> "none",
     err |-> "nil", skipped |-> FALSE, digested |-> FALSE, sent |-> <<>>,
     infoSize |-> -1, checkedName |-> <<>>]

Init ==
    /\ run = 1
    /\ rpc = "sync"
    /\ rootIdx = 1
    /\ metas = <<>>
    /\ handed = "none"
    /\ frame = [d \in Dirs |-> IdleFrame]
    /\ task = [p \in Paths |-> IdleTask]
    /\ store \in InitialStores
    /\ svcExact \in BOOLEAN
    /\ faults = 0
    /\ prevFaults = 0
    /\ manifest = NoManifest
    /\ prevBody = NoBody
    /\ del = IdleDelete

(***************************************************************************)
(* SyncDirectory.                                                          *)
(***************************************************************************)
Files(d) == Tree[d]

\* the caller of SyncDirectory(d) has made the call: Run for the root it
\* is at, the goroutine of a directory entry for its subdirectory
Called(d) ==
    IF d \in Paths THEN task[d].st = "spawned"
    ELSE rpc = "sync" /\ d = Join(ProjectRoot, Roots[rootIdx])

\* mutant: a goroutine that sends nothing empties the channel
Finish_DropOnFailure(d, sent) ==
    [frame EXCEPT ![d].wg = @ - 1,
                  ![d].resultChan = IF sent = <<>> THEN <<>> ELSE Append(@, sent)]

\* wg.Done of a goroutine spawned by directory d, with what it sent
Finish(d, sent) ==
    [frame EXCEPT ![d].wg = @ - 1,
                  ![d].resultChan = IF sent = <<>> THEN @ ELSE Append(@, sent)]

\* mutant: the channel has no buffer, and nothing is received before the barrier
CanSend_Unbuffered(d, sent) == sent = <<>>

\* a send on resultChan blocks while the buffer is full
CanSend(d, sent) == sent = <<>> \/ Len(frame[d].resultChan) < frame[d].cap

\* what kept SyncDirectory from its directory's entries: os.Stat's error,
\* a path that is no directory, os.ReadDir's error
Failure(stat, readDir) ==
    IF stat # "ok" THEN stat ELSE IF readDir # "ok" THEN "readdir" ELSE "none"

\* mutant: the directory is read whatever os.Stat said
Usable_Always(stat, d) == TRUE

\* os.Stat gave no error, the path is a directory and its name is not dot-led
Usable(stat, d) == stat = "ok" /\ ~HasPrefix(BaseName(d), <<".">>)

\* os.Stat, os.ReadDir and ListObjects, up to the loop over the entries
Enter(d) ==
    /\ frame[d].pc = "idle"
    /\ Called(d)
    /\ \E stat \in Outcomes({"ok"}, {"err", "notdir"}), readDir \in Outcomes({"ok"}, {"err"}) :
         IF ~Usable(stat, d)
         THEN /\ readDir = "ok"
              /\ frame' = [frame EXCEPT ![d].pc = "returned",
                                        ![d].fail = Failure(stat, readDir)]
              /\ faults' = IF stat # "ok" THEN faults + 1 ELSE faults
              /\ UNCHANGED store
         ELSE IF readDir = "err"
         THEN /\ frame' = [frame EXCEPT ![d].pc = "returned",
                                        ![d].fail = Failure(stat, readDir)]
              /\ faults' = faults + 1
              /\ UNCHANGED store
         ELSE \E resp \in Responses(store, ListPrefix(d), svcExact) :
                LET r == ListObjects(resp, <<>>)
                IN  /\ r.err # "nil" => MayFail
                    /\ frame' = [frame EXCEPT
                           ![d].pc = IF Files(d) = <<>> THEN "wait" ELSE "loop",
                           ![d].i = 1,
                           ![d].fail = Failure(stat, readDir),
                           ![d].listed = TRUE,
                           ![d].prefix = ListPrefix(d),
                           ![d].listErr = r.err,
                           ![d].awsMetas = BuildIndex(r.objects, {}),
                           ![d].cap = Len(Files(d))]
                    /\ faults' = IF r.err # "nil" THEN faults + 1 ELSE faults
                    /\ UNCHANGED store
    /\ UNCHANGED <<run, rpc, rootIdx, metas, handed, task, svcExact, prevFaults,
                 manifest, prevBody, del>>

\* mutant: the loop passes over no entry
Skipped_Never(file) == FALSE

\* an entry the loop passes over
Skipped(file) == HasPrefix(file.name, <<".">>)

\* mutant: the loop waits while two goroutines of the directory are running
Loop_Capped(d) ==
    /\ frame[d].pc = "loop"
    /\ LET file == Files(d)[frame[d].i]
           last == frame[d].i = Len(Files(d))
       IN  /\ Skipped(file) \/ frame[d].wg < 2
           /\ frame' = [frame EXCEPT
                  ![d].i = @ + 1,
                  ![d].pc = IF last THEN "wait" ELSE "loop",
                  ![d].wg = IF Skipped(file) THEN @ ELSE @ + 1]
           /\ task' = IF Skipped(file) THEN task
                      ELSE [task EXCEPT ![Join(d, file.name)].st = "spawned"]
    /\ UNCHANGED <<run, rpc, rootIdx, metas, handed, store, svcExact, faults, prevFaults,
                 manifest, prevBody, del>>

\* one iteration of "for _, file := range files"
Loop(d) ==
    /\ frame[d].pc = "loop"
    /\ LET file == Files(d)[frame[d].i]
           last == frame[d].i = Len(Files(d))
       IN  /\ frame' = [frame EXCEPT
                  ![d].i = @ + 1,
                  ![d].pc = IF last THEN "wait" ELSE "loop",
                  ![d].wg = IF Skipped(file) THEN @ ELSE @ + 1]
           /\ task' = IF Skipped(file) THEN task
                      ELSE [task EXCEPT ![Join(d, file.name)].st = "spawned"]
    /\ UNCHANGED <<run, rpc, rootIdx, metas, handed, store, svcExact, faults, prevFaults,
                 manifest, prevBody, del>>

\* the module is built with a Go version (1.22 or later) in which every
\* iteration of a range loop has a variable of its own
PerIterationLoopVar == TRUE

\* the entry the loop of a directory is at, or has ended with
CurrentEntry(d, own) == IF frame[d].i > 1 THEN Files(d)[frame[d].i - 1] ELSE own

\* mutant: the goroutines of a directory share one loop variable
LoopVar_Shared(d, own) == CurrentEntry(d, own)

\* what "file" denotes inside the goroutine that was started for the entry
\* own of directory d: the closure uses the loop variable, not a parameter
LoopVar(d, own) == IF PerIterationLoopVar THEN own ELSE CurrentEntry(d, own)

\* a file's goroutine: file.Info, os.ReadFile, the size comparison and the
\* call of UploadObject
TaskStart(f) ==
    /\ f \in FilePaths
    /\ task[f].st = "spawned"
    /\ LET d == ParentOf(f)
           info == LoopVar(d, EntryAt(f))
           key == UploadKey(f)
       IN  \E read \in Outcomes({"ok"}, {"infoerr", "readerr"}) :
             IF read # "ok"
             THEN /\ task' = [task EXCEPT ![f].st = "done", ![f].read = read]
                  /\ frame' = Finish(d, <<>>)
                  /\ faults' = faults + 1
             ELSE /\ task' = IF Mismatch(info.size, frame[d].awsMetas, key)
                             THEN [task EXCEPT ![f].st = "uploading", ![f].read = read,
                                               ![f].infoSize = info.size,
                                               ![f].called = @ + 1, ![f].upKey = key]
                             ELSE [task EXCEPT ![f].st = "digest", ![f].read = read,
                                               ![f].infoSize = info.size,
                                               ![f].skipped = TRUE]
                  /\ frame' = [frame EXCEPT ![d].awsMetas = AfterLookup(@, key)]
                  /\ UNCHANGED faults
    /\ UNCHANGED <<run, rpc, rootIdx, metas, handed, store, svcExact, prevFaults,
                 manifest, prevBody, del>>

\* mutant: the goroutine goes on to the digest whatever UploadObject returned
AfterUpload_Always(e2) == "digest"

\* "if e2 != nil { return }": the goroutine ends on an error of UploadObject
AfterUpload(e2) == IF e2 # "nil" THEN "done" ELSE "digest"

\* UploadObject returns: PutObject, then the wait for the object to exist
UploadReturn(f) ==
    /\ f \in FilePaths
    /\ task[f].st = "uploading"
    /\ \E putErr \in Outcomes({FALSE}, {TRUE}), waitErr \in Outcomes({FALSE}, {TRUE}) :
         LET e2 == UploadObject(putErr, waitErr)
         IN  /\ putErr => ~waitErr
             /\ store' = IF putErr THEN store
                         ELSE PutObject(store, task[f].upKey, EntryAt(f).size)
             /\ task' = [task EXCEPT ![f].put = IF putErr THEN "fail" ELSE "ok",
                                     ![f].err = e2,
                                     ![f].st = AfterUpload(e2)]
             /\ frame' = IF e2 # "nil" THEN Finish(ParentOf(f), <<>>) ELSE frame
             /\ faults' = IF e2 # "nil" THEN faults + 1 ELSE faults
    /\ UNCHANGED <<run, rpc, rootIdx, metas, handed, svcExact, prevFaults,
                 manifest, prevBody, del>>

\* ReadImageMetadata for a file's own path and content
DigestTable ==
    [f \in FilePaths |-> ReadImageMetadata(f, MetaPath(f), EntryAt(f))]

\* the name the goroutine of a file checks before the digest: file.Name()
CheckedName(f) == LoopVar(ParentOf(f), EntryAt(f)).name

\* isSupportedImage for the names of the tree's entries
SupportedNameTable == [n \in {EntryAt(p).name : p \in Paths} |-> isSupportedImage(n)]

\* what a file's goroutine sends once it is past the upload
Digest(f) == IF SupportedNameTable[CheckedName(f)] THEN DigestTable[f] ELSE <<>>

\* the digest of a file, the send of its metadata and wg.Done
TaskDigest(f) ==
    /\ f \in FilePaths
    /\ task[f].st = "digest"
    /\ CanSend(ParentOf(f), Digest(f))
    /\ task' = [task EXCEPT ![f].st = "done", ![f].digested = TRUE, ![f].sent = Digest(f),
                            ![f].checkedName = CheckedName(f)]
    /\ frame' = Finish(ParentOf(f), Digest(f))
    /\ UNCHANGED <<run, rpc, rootIdx, metas, handed, store, svcExact, faults, prevFaults,
                 manifest, prevBody, del>>

\* a subdirectory's goroutine after SyncDirectory returned: the send and wg.Done
TaskDirReturn(t) ==
    /\ t \in Paths \cap Dirs
    /\ task[t].st = "spawned"
    /\ frame[t].pc = "returned"
    /\ CanSend(ParentOf(t), frame[t].metas)
    /\ task' = [task EXCEPT ![t].st = "done", ![t].sent = frame[t].metas]
    /\ frame' = Finish(ParentOf(t), frame[t].metas)
    /\ UNCHANGED <<run, rpc, rootIdx, metas, handed, store, svcExact, faults, prevFaults,
                 manifest, prevBody, del>>

\* mutant: the directory goes on while one goroutine is still running
Barrier_AllButOne(d) == frame[d].wg <= 1

\* wg.Wait lets the directory go on
Barrier(d) == frame[d].wg = 0

\* wg.Wait, close(resultChan), the drain of the channel and the return
WaitReturn(d) ==
    /\ frame[d].pc = "wait"
    /\ Barrier(d)
    /\ frame' = [frame EXCEPT ![d].pc = "returned",
                              ![d].metas = Flatten(frame[d].resultChan),
                              ![d].resultChan = <<>>]
    /\ UNCHANGED <<run, rpc, rootIdx, metas, handed, task, store, svcExact, faults, prevFaults,
                 manifest, prevBody, del>>

(***************************************************************************)
(* Run and UploadMetadata.                                                 *)
(***************************************************************************)
\* Run's loop: SyncDirectory returned for the root, r is appended
RunCollect ==
    /\ rpc = "sync"
    /\ frame[Join(ProjectRoot, Roots[rootIdx])].pc = "returned"
    /\ metas' = metas \o frame[Join(ProjectRoot, Roots[rootIdx])].metas
    /\ IF rootIdx < Len(Roots)
       THEN rootIdx' = rootIdx + 1 /\ rpc' = "sync"
       ELSE rootIdx' = rootIdx /\ rpc' = "meta"
    /\ UNCHANGED <<run, handed, frame, task, store, svcExact, faults, prevFaults,
                 manifest, prevBody, del>>

\* the size of the manifest's body; no lookup of the sync reads it
ManifestSize(metadata) == 1 + Len(metadata)

\* the errors encoder.Encode can return for a slice of strings and integers
\* written to a bytes.Buffer: none
EncodeErrors == {FALSE}

\* what UploadMetadata leaves in err after PutObject and the waiter
ManifestResult(putErr, waitErr) ==
    IF putErr THEN "put" ELSE IF waitErr THEN "wait" ELSE "nil"

\* mutant: a manifest that was not persisted ends the process
AfterManifest_FatalOnError(encErr, err) ==
    IF encErr \/ err # "nil" THEN "fatal" ELSE "done"

\* where Run is after UploadMetadata: log.Fatalf ends the process on an
\* encoding error only, every other error is logged
AfterManifest(encErr, err) ==
    IF encErr THEN "fatal" ELSE "done"

\* mutant: the new entries are added to those of the manifest before
ManifestBody_Merged(metadata, previous) == Encode(previous.items \o metadata)

\* the body UploadMetadata puts; the manifest of the run before is not read
ManifestBody(metadata, previous) == Encode(metadata)

\* UploadMetadata: the encoding, the PutObject of the manifest and the wait
UploadMetadata ==
    /\ rpc = "meta"
    /\ handed' = metas
    /\ \E encErr \in EncodeErrors,
          putErr \in Outcomes({FALSE}, {TRUE}), waitErr \in Outcomes({FALSE}, {TRUE}) :
         LET err == ManifestResult(putErr, waitErr)
         IN  /\ putErr => ~waitErr
             /\ IF encErr
                THEN UNCHANGED <<store, manifest, faults>>
                ELSE /\ store' = IF putErr THEN store
                                 ELSE PutObject(store, ImageMetadataFile, ManifestSize(metas))
                     /\ manifest' = [puts |-> manifest.puts + 1, err |-> err,
                                     body |-> ManifestBody(metas, prevBody)]
                     /\ faults' = IF err # "nil" THEN faults + 1 ELSE faults
             /\ rpc' = AfterManifest(encErr, err)
    /\ UNCHANGED <<run, rootIdx, metas, frame, task, svcExact, prevFaults, prevBody, del>>

\* the command is run again, on the same tree and the same bucket
NextRun ==
    /\ rpc = "done"
    /\ run < MaxRuns
    /\ run' = run + 1
    /\ rpc' = "sync"
    /\ rootIdx' = 1
    /\ metas' = <<>>
    /\ handed' = "none"
    /\ frame' = [d \in Dirs |-> IdleFrame]
    /\ task' = [p \in Paths |-> IdleTask]
    /\ prevFaults' = faults
    /\ manifest' = NoManifest
    /\ prevBody' = manifest.body
    /\ UNCHANGED <<store, svcExact, faults, del>>

Next ==
    \/ \E d \in Dirs : Enter(d)
    \/ \E d \in Dirs : Loop(d)
    \/ \E f \in Paths : TaskStart(f)
    \/ \E f \in Paths : UploadReturn(f)
    \/ \E f \in Paths : TaskDigest(f)
    \/ \E t \in Paths : TaskDirReturn(t)
    \/ \E d \in Dirs : WaitReturn(d)
    \/ RunCollect
    \/ UploadMetadata
    \/ NextRun

Spec == Init /\ [][Next]_vars

(***************************************************************************)
(* BucketClient.DeleteObjects.  The sync command never calls it; it is     *)
(* exercised by a specification of its own, on the same bucket.  With      *)
(* Quiet set the service reports the keys that failed only; a service      *)
(* that does not honour Quiet also reports the keys it deleted, and these  *)
(* are the keys the code waits for.                                        *)
(***************************************************************************)
\* the keys a caller may ask to delete
DeleteCandidates ==
    { UploadKey(Join(ImagesDir, <<"a",".","j","p","g">>)),
      UploadKey(Join(UploadsDir, <<"n",".","t","x","t">>)),
      ImageMetadataFile }

\* objectKeys: sequences of distinct keys
KeyLists ==
    UNION {{ks \in [1..n -> DeleteCandidates] : \A i, j \in 1..n : ks[i] = ks[j] => i = j} :
              n \in 1..MaxDeleteKeys}

\* the loop over output.Deleted: err is assigned by every wait
RECURSIVE WaitLoop(_, _)
WaitLoop(waits, err) ==
    IF waits = <<>> THEN err
    ELSE WaitLoop(Tail(waits), IF Head(waits) THEN "wait" ELSE "nil")

\* the error DeleteObjects returns, from the batch call's error, the
\* per-object errors of its output and the outcomes of the waits (TRUE: failed)
DeleteObjects(apiErr, errors, waits) ==
    IF apiErr # "nil" \/ Len(errors) > 0
    THEN IF apiErr # "nil" THEN apiErr ELSE "object"
    ELSE WaitLoop(waits, apiErr)

\* the batch call bucket.Client.DeleteObjects and its output
DeleteRequest ==
    /\ del.pc = "idle"
    /\ \E keys \in KeyLists, apiErr \in {"nil", "NoSuchBucket", "other"},
          failing \in SUBSET DeleteCandidates, quiet \in BOOLEAN :
         LET errors == SelectSeq(keys, LAMBDA k : k \in failing)
             gone == SelectSeq(keys, LAMBDA k : k \notin failing)
         IN  /\ apiErr # "nil" => failing = {}
             /\ failing \subseteq {keys[i] : i \in 1..Len(keys)}
             /\ store' = IF apiErr # "nil" THEN store
                         ELSE {o \in store : \A i \in 1..Len(gone) : o.key # gone[i]}
             /\ del' = [del EXCEPT !.pc = "called", !.calls = @ + 1, !.keys = keys,
                                   !.apiErr = apiErr, !.errors = errors,
                                   !.deleted = IF apiErr # "nil" \/ quiet THEN <<>> ELSE gone]
    /\ UNCHANGED <<run, rpc, rootIdx, metas, handed, frame, task, svcExact, faults,
                   prevFaults, manifest, prevBody>>

\* one ObjectNotExistsWaiter.Wait of the loop over output.Deleted
DeleteWait ==
    /\ del.pc = "called"
    /\ del.apiErr = "nil" /\ del.errors = <<>>
    /\ Len(del.waits) < Len(del.deleted)
    /\ \E failed \in BOOLEAN : del' = [del EXCEPT !.waits = Append(@, failed)]
    /\ UNCHANGED <<run, rpc, rootIdx, metas, handed, frame, task, store, svcExact, faults,
                   prevFaults, manifest, prevBody>>

\* return err
DeleteReturn ==
    /\ del.pc = "called"
    /\ (del.apiErr = "nil" /\ del.errors = <<>>) => Len(del.waits) = Len(del.deleted)
    /\ del' = [del EXCEPT !.pc = "returned",
                          !.err = DeleteObjects(del.apiErr, del.errors, del.waits)]
    /\ UNCHANGED <<run, rpc, rootIdx, metas, handed, frame, task, store, svcExact, faults,
                   prevFaults, manifest, prevBody>>

DeleteNext == DeleteRequest \/ DeleteWait \/ DeleteReturn

DeleteSpec == Init /\ [][DeleteNext]_vars

(***************************************************************************)
(* Vocabulary of the properties.                                           *)
(***************************************************************************)
\* a file's path relative to the project root, with no leading separator
RelPath(f) == SubSeq(f, Len(ProjectRoot) + 2, Len(f))

\* a relative path, key or prefix with an element that begins with a dot
HiddenStr(s) == \E k \in 1..Len(s) : s[k] = "." /\ (k = 1 \/ s[k - 1] = "/")
HiddenTable == [p \in Paths \cup Dirs |-> HiddenStr(RelPath(p))]
UnderHidden(p) == HiddenTable[p]

\* the name ends in a dot and a supported extension, in any case
SupportedExtension(name) ==
    \E ext \in supportExtensions :
        /\ Len(name) > Len(ext)
        /\ name[Len(name) - Len(ext)] = "."
        /\ ToLower(SubSeq(name, Len(name) - Len(ext) + 1, Len(name))) = ext

InIndex(d, key) == \E o \in frame[d].awsMetas : o.key = key
RemoteSize(d, key) == (CHOOSE o \in frame[d].awsMetas : o.key = key).size

\* UploadObject calls of this run for a key
RECURSIVE SumCalled(_)
SumCalled(T) ==
    IF T = {} THEN 0
    ELSE LET t == CHOOSE x \in T : TRUE IN task[t].called + SumCalled(T \ {t})
UploadCalls(key) == SumCalled({t \in FilePaths : task[t].upKey = key})

\* the file's info and content were read
ReadOk(f) == task[f].read = "ok"
\* the file's directory got as far as its listing
Listed(f) == frame[ParentOf(f)].listed

\* entries of a metadata sequence that are the file's
EntriesFor(f, ms) == {k \in 1..Len(ms) : TrimSlash(ms[k].path) = RelPath(f)}

\* UploadObject returned nil for the file, or the sizes were equal
UploadedOrSynced(f) ==
    \/ task[f].called = 1 /\ task[f].put = "ok" /\ task[f].err = "nil"
    \/ task[f].skipped

RunDone == rpc = "done"

(***************************************************************************)
(* C1.  Change detection.                                                  *)
(***************************************************************************)
\* C1 as stated: at the end of a run, every non-hidden file whose object key
\* is in its directory's index had UploadObject called exactly once for the
\* key if the sizes differ, and never if they are equal.
C1_AsStated ==
    RunDone =>
        \A f \in FilePaths :
            (~UnderHidden(f) /\ Listed(f) /\ InIndex(ParentOf(f), RelPath(f))) =>
                UploadCalls(RelPath(f)) =
                    IF EntryAt(f).size # RemoteSize(ParentOf(f), RelPath(f)) THEN 1 ELSE 0

\* C1 (amended): at the end of a run, every non-hidden file whose info and
\* content were read without error and whose object key is in its directory's
\* index had UploadObject called exactly once for the key if the sizes
\* differ, and never if they are equal.
C1_ChangeDetection ==
    RunDone =>
        \A f \in FilePaths :
            (~UnderHidden(f) /\ Listed(f) /\ ReadOk(f)
                /\ InIndex(ParentOf(f), RelPath(f))) =>
                UploadCalls(RelPath(f)) =
                    IF EntryAt(f).size # RemoteSize(ParentOf(f), RelPath(f)) THEN 1 ELSE 0

\* a run has ended in which a listed file of another size was uploaded once
\* and a listed file of the same size was not
C1_Witness ==
    /\ RunDone
    /\ \E f \in FilePaths :
         /\ ReadOk(f) /\ InIndex(ParentOf(f), RelPath(f))
         /\ EntryAt(f).size # RemoteSize(ParentOf(f), RelPath(f))
         /\ UploadCalls(RelPath(f)) = 1
    /\ \E g \in FilePaths :
         /\ ReadOk(g) /\ InIndex(ParentOf(g), RelPath(g))
         /\ EntryAt(g).size = RemoteSize(ParentOf(g), RelPath(g))
         /\ UploadCalls(RelPath(g)) = 0

(***************************************************************************)
(* C2.  Remote absence always mismatches.                                  *)
(***************************************************************************)
\* C2: at the end of a run, every non-hidden file that was read and whose
\* object key is absent from its directory's index was uploaded, whatever its
\* size.
C2_AbsentAlwaysUploaded ==
    RunDone =>
        \A f \in FilePaths :
            (~UnderHidden(f) /\ Listed(f) /\ ReadOk(f)
                /\ ~InIndex(ParentOf(f), RelPath(f))) =>
                UploadCalls(RelPath(f)) = 1

(***************************************************************************)
(* C3.  Idempotence of uploads.                                            *)
(***************************************************************************)
\* C3: in a second run after a first run in which no call failed, against a
\* service that lists every object under the key it was put with (the S3
\* prefix rule) and with no failure so far, UploadObject is called for no file.
C3_SecondRunNoUploads ==
    (run = 2 /\ prevFaults = 0 /\ faults = 0 /\ svcExact) =>
        \A f \in FilePaths : task[f].called = 0

(***************************************************************************)
(* C4.  Hidden-entry exclusion.                                            *)
(***************************************************************************)
AllMetas ==
    (IF handed = "none" THEN {} ELSE {handed[k] : k \in 1..Len(handed)})
    \cup {metas[k] : k \in 1..Len(metas)}
    \cup UNION {{frame[d].metas[k] : k \in 1..Len(frame[d].metas)} : d \in Dirs}
    \cup UNION {{Flatten(frame[d].resultChan)[k] :
                    k \in 1..Len(Flatten(frame[d].resultChan))} : d \in Dirs}

\* C4: in every state, an entry with a dot-led element in its path has no
\* goroutine and no UploadObject call, its directory is never entered nor
\* listed, and no metadata anywhere carries a path with a dot-led element.
C4_HiddenExcluded ==
    /\ \A p \in Paths : UnderHidden(p) => task[p] = IdleTask
    /\ \A d \in Dirs : UnderHidden(d) => frame[d] = IdleFrame
    /\ \A f \in FilePaths : task[f].called > 0 => ~HiddenStr(TrimSlash(task[f].upKey))
    /\ \A d \in Dirs : frame[d].listed => ~HiddenStr(TrimSlash(frame[d].prefix))
    /\ \A m \in AllMetas : ~HiddenStr(TrimSlash(m.path))

\* a run has ended in which the directory holding the hidden file and the
\* hidden directory was listed, its loop finished and metadata was collected
C4_Witness ==
    /\ RunDone
    /\ frame[ImagesDir].listed
    /\ frame[ImagesDir].i > Len(Files(ImagesDir))
    /\ \E k \in 1..Len(Files(ImagesDir)) : Skipped(Files(ImagesDir)[k])
    /\ handed # <<>>

(***************************************************************************)
(* C5.  Metadata completeness.                                             *)
(***************************************************************************)
Decodable(f) == EntryAt(f).content = "ok"

\* C5: the metadata handed to UploadMetadata holds exactly one entry for
\* every non-hidden file for which UploadObject returned nil or whose sizes
\* were equal, whose extension is supported and whose content decodes, and no
\* entry for a file with another extension or with content that does not
\* decode.
C5_MetadataComplete ==
    handed # "none" =>
        \A f \in FilePaths :
            /\ (~UnderHidden(f) /\ UploadedOrSynced(f)
                    /\ SupportedExtension(EntryAt(f).name) /\ Decodable(f))
                  => Cardinality(EntriesFor(f, handed)) = 1
            /\ (~SupportedExtension(EntryAt(f).name) \/ ~Decodable(f))
                  => EntriesFor(f, handed) = {}

\* metadata was handed over with the entry of an uploaded image and of an
\* image found in step, after a file of another extension and a file that
\* does not decode were uploaded or found in step
C5_Witness ==
    /\ handed # "none"
    /\ \E f \in FilePaths :
         task[f].called = 1 /\ task[f].err = "nil" /\ Cardinality(EntriesFor(f, handed)) = 1
    /\ \E f \in FilePaths : task[f].skipped /\ Cardinality(EntriesFor(f, handed)) = 1
    /\ \E f \in FilePaths :
         UploadedOrSynced(f) /\ ~SupportedExtension(EntryAt(f).name) /\ task[f].digested
    /\ \E f \in FilePaths :
         UploadedOrSynced(f) /\ SupportedExtension(EntryAt(f).name) /\ ~Decodable(f)
            /\ task[f].digested

(***************************************************************************)
(* C6.  Partial-failure isolation.                                         *)
(***************************************************************************)
\* the directory was called for: a root Run reached, or an entry of a
\* directory that got as far as its loop
Reached(d) == IF d \in Paths THEN frame[ParentOf(d)].listed ELSE TRUE

\* C6: at the end of a run in which UploadObject failed for a file, every
\* non-hidden directory that was called for has returned, every non-hidden
\* file of a listed directory had its goroutine run to its end, and every
\* other file that was uploaded or found in step, has a supported extension
\* and decodes has its entry in the metadata handed to UploadMetadata.
C6_FailureIsolated ==
    (RunDone /\ \E f \in FilePaths : task[f].err # "nil") =>
        /\ \A d \in Dirs : (~UnderHidden(d) /\ Reached(d)) => frame[d].pc = "returned"
        /\ \A g \in FilePaths :
             (~UnderHidden(g) /\ Listed(g)) => (task[g].st = "done" /\ task[g].read # "none")
        /\ \A g \in FilePaths :
             (~UnderHidden(g) /\ UploadedOrSynced(g)
                 /\ SupportedExtension(EntryAt(g).name) /\ Decodable(g))
               => Cardinality(EntriesFor(g, handed)) = 1

\* a run has ended in which one upload failed, a sibling file and a file of
\* a sibling subdirectory were uploaded, and their metadata was handed over
C6_Witness ==
    /\ RunDone
    /\ \E f \in FilePaths :
         /\ task[f].err # "nil"
         /\ \E g \in FilePaths \ {f} :
              ParentOf(g) = ParentOf(f) /\ task[g].called = 1 /\ task[g].err = "nil"
         /\ \E g \in FilePaths \ {f} :
              /\ ParentOf(g) \in Paths /\ ParentOf(ParentOf(g)) = ParentOf(f)
              /\ Cardinality(EntriesFor(g, handed)) = 1

(***************************************************************************)
(* C7.  Object key and metadata path agree.                                *)
(***************************************************************************)
\* C7: the key passed to UploadObject for a file is its path relative to the
\* project root with no leading separator, and the path of the metadata
\* entry the file's goroutine emits is that same key.
C7_KeyAndPathAgree ==
    \A f \in FilePaths :
        /\ task[f].called > 0 => task[f].upKey = RelPath(f)
        /\ task[f].sent # <<>> => task[f].sent[1].path = RelPath(f)

(***************************************************************************)
(* C8.  Listing-failure fallback.                                          *)
(***************************************************************************)
\* C8: at the end of a run, when ListObjects returned an error for a
\* directory, every non-hidden file directly in it that was read and is not
\* empty was uploaded.
C8_ListingFailureUploadsAll ==
    RunDone =>
        \A f \in FilePaths :
            (~UnderHidden(f) /\ Listed(f) /\ frame[ParentOf(f)].listErr # "nil"
                /\ ReadOk(f) /\ EntryAt(f).size > 0) =>
                UploadCalls(RelPath(f)) = 1

(***************************************************************************)
(* C9.  A confirmation timeout is not an upload failure.                   *)
(***************************************************************************)
\* C9: whenever PutObject succeeded for a file, UploadObject returned nil
\* (so the file is not skipped).
C9_WrittenMeansSuccess ==
    \A f \in FilePaths : task[f].put = "ok" => task[f].err = "nil"

(***************************************************************************)
(* C10.  Fan-in barrier.                                                   *)
(***************************************************************************)
\* the entries below a directory, at any depth
Below(d) == {p \in Paths : HasPrefix(p, d \o <<"/">>)}

\* C10: once SyncDirectory(D) has returned, no goroutine of an entry below D
\* is spawned and not finished, no directory below D is in its loop or at its
\* barrier, and every non-hidden entry of a directory that reached its loop
\* has finished.
C10_FanInBarrier ==
    \A d \in Dirs :
        frame[d].pc = "returned" =>
            /\ \A p \in Below(d) : task[p].st \in {"idle", "done"}
            /\ \A p \in Below(d) \cap Dirs : frame[p].pc \in {"idle", "returned"}
            /\ \A p \in Below(d) :
                 (~UnderHidden(p) /\ frame[ParentOf(p)].listed) => task[p].st = "done"

\* SyncDirectory of the first root has returned, before Run took its result,
\* after the goroutines of a file, a subdirectory and the subdirectory's file
\* ran, with an upload among them
C10_Witness ==
    /\ rpc = "sync" /\ rootIdx = 1
    /\ frame[ImagesDir].pc = "returned"
    /\ task[SubDir].st = "done"
    /\ \E f \in Below(SubDir) : task[f].st = "done" /\ task[f].called = 1
    /\ \E f \in Below(ImagesDir) \ Below(SubDir) : f \in FilePaths /\ task[f].digested

(***************************************************************************)
(* C11.  Manifest write.                                                   *)
(***************************************************************************)
\* the root directories Run calls SyncDirectory for
RootDirs == {Join(ProjectRoot, Roots[k]) : k \in 1..Len(Roots)}

\* the manifest object the bucket holds
ManifestObjects == {o \in store : o.key = ImageMetadataFile}

\* C11: a run issues no PutObject for images/metadata.json before
\* UploadMetadata and exactly one by its end; when it is issued SyncDirectory
\* has returned for both roots and no goroutine is running; its body is the
\* metadata the roots returned in this run, in Run's order, and nothing else;
\* a PutObject that succeeded left that body under the key.
C11_ManifestWrite ==
    /\ rpc \in {"sync", "meta"} => manifest.puts = 0
    /\ RunDone => manifest.puts = 1
    /\ manifest.puts > 0 =>
         /\ \A d \in RootDirs : frame[d].pc = "returned"
         /\ \A p \in Paths : task[p].st \in {"idle", "done"}
         /\ manifest.body.items = frame[ImagesDir].metas \o frame[UploadsDir].metas
         /\ manifest.body.items = handed
         /\ manifest.err # "put" =>
              ManifestObjects = {[key |-> ImageMetadataFile,
                                  size |-> ManifestSize(manifest.body.items)]}

\* a second run has ended with its manifest written, after a first run
\* whose manifest had entries
C11_Witness ==
    /\ run = 2 /\ RunDone
    /\ prevBody.items # <<>>
    /\ manifest.puts = 1 /\ manifest.err = "nil"
    /\ manifest.body.items # <<>>
    /\ \E f \in FilePaths : task[f].called = 1

(***************************************************************************)
(* C12, C13.  A manifest that cannot be persisted.                         *)
(***************************************************************************)
\* the process's exit status: log.Fatalf exits with 1, a Run that returns
\* lets the command exit with 0; -1 while the process runs
ExitCode == IF rpc = "fatal" THEN 1 ELSE IF rpc = "done" THEN 0 ELSE -1

\* UploadMetadata was called and its PutObject failed
ManifestPutFailed == manifest.puts > 0 /\ manifest.err = "put"

\* the objects of the files UploadObject wrote in this run
Written(f) == [key |-> task[f].upKey, size |-> EntryAt(f).size]

\* C12: when the upload of the manifest failed, the process has ended with a
\* non-zero exit status.
C12_ManifestFailureFailsRun == ManifestPutFailed => ExitCode > 0

\* C13: when the PutObject of the manifest or the wait after it failed,
\* UploadMetadata returned, the process ended normally, and every object a
\* file upload of the run wrote is still in the bucket.
C13_ManifestBestEffort ==
    (manifest.puts > 0 /\ manifest.err \in {"put", "wait"}) =>
        /\ ExitCode = 0
        /\ \A f \in FilePaths : task[f].put = "ok" => Written(f) \in store

\* the PutObject of the manifest failed in a run that had uploaded a file
C13_Witness ==
    /\ ManifestPutFailed
    /\ RunDone
    /\ \E f \in FilePaths : task[f].put = "ok" /\ task[f].err = "nil"

(***************************************************************************)
(* C14.  An unreadable directory is not fatal.                             *)
(***************************************************************************)
\* SyncDirectory could not stat the directory, found no directory, or could
\* not read its entries
Failed(d) == frame[d].fail # "none"

\* the other entries of the directory that holds p
Siblings(p) == {q \in Paths \ {p} : ParentOf(q) = ParentOf(p)}

\* C14: a directory that could not be stat'ed, is no directory or could not
\* be read has returned an empty result, with no listing, no goroutine and
\* no upload below it; at the end of the run every non-hidden sibling of such
\* a directory has been processed, SyncDirectory has returned for every root
\* and the manifest has been put.
C14_UnreadableDirectoryNonFatal ==
    /\ \A d \in Dirs : Failed(d) =>
         /\ frame[d].pc = "returned" /\ ~frame[d].listed /\ frame[d].metas = <<>>
         /\ \A p \in Below(d) : task[p] = IdleTask
         /\ \A p \in Below(d) \cap Dirs : frame[p] = IdleFrame
    /\ RunDone =>
         /\ \A d \in RootDirs : frame[d].pc = "returned"
         /\ \A d \in Dirs \cap Paths :
              Failed(d) => \A q \in Siblings(d) : ~UnderHidden(q) => task[q].st = "done"
         /\ manifest.puts = 1

\* a run has ended in which the root "images" could not be read, a file of
\* "uploads" was uploaded and the manifest was written
C14_Witness ==
    /\ RunDone
    /\ Failed(ImagesDir)
    /\ frame[UploadsDir].listed
    /\ \E f \in Below(UploadsDir) : task[f].put = "ok" /\ task[f].err = "nil"
    /\ manifest.puts = 1 /\ manifest.err = "nil"

(***************************************************************************)
(* C15.  Extension gate.                                                   *)
(***************************************************************************)
\* the comparison of the file's goroutine found another size: the key is in
\* the index with another size, or it is not and the file is not empty
SizeMismatched(f) ==
    IF InIndex(ParentOf(f), RelPath(f))
    THEN EntryAt(f).size # RemoteSize(ParentOf(f), RelPath(f))
    ELSE EntryAt(f).size > 0

\* the goroutine of the file is past the comparison
Compared(f) == ReadOk(f) /\ task[f].st \in {"uploading", "digest", "done"}

\* the non-hidden files whose name has no dot or no supported extension
GatedFiles ==
    {f \in FilePaths : ~UnderHidden(f) /\ ~SupportedExtension(EntryAt(f).name)}

\* C15: a non-hidden file whose name has no dot, or whose text after the
\* last dot is no supported extension in any case, has UploadObject called
\* once when its goroutine found another size, sends no metadata, and no
\* metadata anywhere carries its path; so for the dot-less name "png".
C15_ExtensionGate ==
    /\ \A f \in GatedFiles :
          /\ (Compared(f) /\ SizeMismatched(f)) => task[f].called = 1
          /\ task[f].sent = <<>>
    /\ \A m \in AllMetas : \A f \in GatedFiles : TrimSlash(m.path) # RelPath(f)

\* a run has ended in which a dot-less file whose name is spelled like a
\* supported extension was uploaded and went through the digest step
C15_Witness ==
    /\ RunDone
    /\ \E f \in FilePaths :
         /\ ~SupportedExtension(EntryAt(f).name)
         /\ isSupportedImage(EntryAt(f).name)
         /\ task[f].called = 1 /\ task[f].err = "nil"
         /\ task[f].digested
    /\ handed # <<>>

(***************************************************************************)
(* C16.  Upload-only frame.                                                *)
(***************************************************************************)
\* the keys of the local non-hidden files, and the keys a run may write
LocalKeys == {RelPath(f) : f \in {g \in FilePaths : ~UnderHidden(g)}}
WritableKeys == LocalKeys \cup {ImageMetadataFile}

StoreKeys(objs) == {o.key : o \in objs}

\* C16: every step of a run leaves each object whose key is neither a local
\* non-hidden file's nor images/metadata.json as it is, removes no key from
\* the bucket, adds or replaces objects under those keys only, and makes no
\* call of DeleteObjects.
C16_UploadOnlyFrame ==
    [][ /\ \A o \in store : o.key \notin WritableKeys => o \in store'
        /\ StoreKeys(store) \subseteq StoreKeys(store')
        /\ \A o \in store' \ store : o.key \in WritableKeys
        /\ del' = del /\ del.calls = 0 ]_vars

\* a run has ended that wrote a file's object and the manifest while the
\* bucket holds an object with no local counterpart
C16_Witness ==
    /\ RunDone
    /\ \E f \in FilePaths : task[f].put = "ok"
    /\ manifest.puts = 1 /\ manifest.err = "nil"
    /\ \E o \in store : o.key \notin WritableKeys

(***************************************************************************)
(* C17.  Upload before digest.                                             *)
(***************************************************************************)
\* the file's goroutine is at its digest step or past it
AtDigest(f) == task[f].st = "digest" \/ task[f].digested

\* the file's read or its upload failed
ReadOrUploadFailed(f) == task[f].read \in {"infoerr", "readerr"} \/ task[f].err # "nil"

\* C17: a file's goroutine is at its digest step only after UploadObject
\* returned nil for the file or the sizes were found equal, never while the
\* upload is under way; a file whose read or upload failed never gets there,
\* sends nothing, and no metadata carries its path.
C17_UploadBeforeDigest ==
    \A f \in FilePaths :
        /\ AtDigest(f) => UploadedOrSynced(f)
        /\ task[f].st = "uploading" => (~task[f].digested /\ task[f].sent = <<>>)
        /\ ReadOrUploadFailed(f) =>
             /\ ~AtDigest(f)
             /\ task[f].sent = <<>>
             /\ \A m \in AllMetas : TrimSlash(m.path) # RelPath(f)

\* an image whose upload failed has ended without a digest, and another
\* image was digested after its upload
C17_Witness ==
    /\ \E f \in FilePaths :
         /\ SupportedExtension(EntryAt(f).name) /\ Decodable(f)
         /\ task[f].err # "nil" /\ task[f].st = "done" /\ ~task[f].digested
    /\ \E g \in FilePaths :
         task[g].called = 1 /\ task[g].err = "nil" /\ task[g].digested /\ task[g].sent # <<>>

(***************************************************************************)
(* C18.  ListObjects pagination.                                           *)
(***************************************************************************)
\* the answers of NextPage for pages that all arrive
Answers(pages) == [j \in 1..Len(pages) |-> [err |-> "nil", contents |-> pages[j]]]

\* the answers when the call after k pages fails with e, and the service
\* would have answered the calls after it with the pages left
AnswersFailingAfter(pages, k, e) ==
    SubSeq(Answers(pages), 1, k) \o <<[err |-> e, contents |-> <<>>]>>
        \o SubSeq(Answers(pages), k + 1, Len(pages))

\* the objects of the first k pages, in order
ObjectsOf(pages, k) == Flatten(SubSeq(pages, 1, k))

\* the pages a bucket holds for the prefix of directory d
PagesFor(objs, d) == PagesOf(objs, ListPrefix(d), svcExact)
PagesNow(d) == PagesFor(store, d)

\* ListObjects on the pages of every directory's prefix in a bucket: all
\* pages arrive, or the call after k pages fails
PaginationHolds(objs) ==
    \A d \in Dirs :
        LET pages == PagesFor(objs, d)
        IN  /\ ListObjects(Answers(pages), <<>>)
                   = [objects |-> ObjectsOf(pages, Len(pages)), err |-> "nil"]
            /\ \A k \in 0..(Len(pages) - 1), e \in {"NoSuchBucket", "other"} :
                   ListObjects(AnswersFailingAfter(pages, k, e), <<>>)
                       = [objects |-> ObjectsOf(pages, k), err |-> e]

\* C18: for the pages of every directory's prefix, in the bucket a run
\* starts with and in the bucket after every step that changes it,
\* ListObjects returns the objects of all pages in order with a nil error
\* when no page fails; when the call after k pages fails it returns the
\* objects of those k pages with that error, NoSuchBucket as itself, whatever
\* the calls after it would have answered.
C18_ListObjectsPagination ==
    /\ PaginationHolds(store)
    /\ [][store' # store => PaginationHolds(store')]_vars

\* a directory was listed from several pages, the listing failed after the
\* first ones and the objects of those are in its index
C18_Witness ==
    \E d \in Dirs :
        /\ frame[d].listed
        /\ Len(PagesNow(d)) > 1
        /\ frame[d].listErr = "NoSuchBucket"
        /\ frame[d].awsMetas # {}

(***************************************************************************)
(* C19.  Failures of the waits after a delete.                             *)
(***************************************************************************)
\* the batch call returned no error and reported no per-object error
BatchSucceeded == del.apiErr = "nil" /\ del.errors = <<>>

\* C19: when the batch call succeeded with no per-object error,
\* DeleteObjects returns nil, whichever of the waits for the deleted keys
\* failed.
C19_WaitFailuresNotEscalated ==
    (del.pc = "returned" /\ BatchSucceeded) => del.err = "nil"

(***************************************************************************)
(* C20.  Byte-identical manifest.                                          *)
(***************************************************************************)
\* C20: when no call has failed in the first run nor in the second, the
\* manifest body the second run produces is the body the first run produced,
\* entry for entry and in the same order.
C20_ManifestByteIdentical ==
    (run = 2 /\ faults = 0 /\ manifest.puts = 1) => manifest.body = prevBody

(***************************************************************************)
(* C21. The listing prefix matches the lookup key.                         *)
(***************************************************************************)
\* the file's goroutine has not put the file's object in this run
NotYetPut(f) == task[f].put # "ok"

\* C21: for every file directly in a listed directory, the prefix passed to
\* ListObjects is a string prefix of the key the file is uploaded under, the
\* key looked up in the index is that upload key, and an object the store
\* held under that key when the directory was listed without error is in
\* the directory's index.
C21_PrefixCoversKey ==
    \A f \in FilePaths :
        Listed(f) =>
            /\ HasPrefix(UploadKey(f), frame[ParentOf(f)].prefix)
            /\ task[f].called > 0 => task[f].upKey = UploadKey(f)
            /\ (frame[ParentOf(f)].listErr = "nil" /\ NotYetPut(f)
                    /\ UploadKey(f) \in StoreKeys(store))
                => InIndex(ParentOf(f), UploadKey(f))

(***************************************************************************)
(* C22. The digest is advisory.                                            *)
(***************************************************************************)
\* the non-hidden files with a supported extension whose digest fails
DigestFailing ==
    {f \in FilePaths :
        ~UnderHidden(f) /\ SupportedExtension(EntryAt(f).name) /\ ~Decodable(f)}

\* ReadImageMetadata gives nil for a file's path when image.Size fails and
\* when image.Process fails
NilOnDigestFailure ==
    \A f \in FilePaths : \A c \in {"nosize", "noprocess"} :
        ReadImageMetadata(f, MetaPath(f), [EntryAt(f) EXCEPT !.content = c]) = <<>>

\* C22: a file with a supported extension whose digest fails has
\* UploadObject called once when its goroutine found another size; once it
\* is past the digest its upload has not failed, the object it put is still
\* in the store with the file's size, and it has sent no metadata; at the
\* end of the run its directory was read, every non-hidden sibling has been
\* processed, and no metadata carries its path.
C22_DigestAdvisory ==
    /\ NilOnDigestFailure
    /\ \A f \in DigestFailing :
          /\ (Compared(f) /\ SizeMismatched(f)) => task[f].called = 1
          /\ task[f].sent = <<>>
          /\ task[f].digested =>
                /\ task[f].err = "nil"
                /\ task[f].called = 1 =>
                      /\ task[f].put = "ok"
                      /\ [key |-> UploadKey(f), size |-> EntryAt(f).size] \in store
          /\ (RunDone /\ task[f].digested) =>
                /\ ~Failed(ParentOf(f))
                /\ frame[ParentOf(f)].pc = "returned"
                /\ \A q \in Siblings(f) : ~UnderHidden(q) => task[q].st = "done"
    /\ \A m \in AllMetas : \A f \in DigestFailing : TrimSlash(m.path) # RelPath(f)

\* a run has ended in which a file with a supported extension was uploaded,
\* its digest failed, its object is in the store, and a sibling was uploaded
\* as well
C22_Witness ==
    /\ RunDone
    /\ \E f \in DigestFailing :
         /\ task[f].called = 1 /\ task[f].put = "ok" /\ task[f].digested
         /\ task[f].sent = <<>>
         /\ [key |-> UploadKey(f), size |-> EntryAt(f).size] \in store
         /\ \E q \in Siblings(f) : task[q].called = 1 /\ task[q].put = "ok"

(***************************************************************************)
(* C23. Concurrency-safe accumulation.                                     *)
(***************************************************************************)
\* the entries of a directory, each the subject of one goroutine
ChildrenTable == [d \in Dirs |-> {p \in Paths : ParentOf(p) = d}]
Children(d) == ChildrenTable[d]

\* how often a value occurs in a sequence
Occurrences(s, x) == Cardinality({k \in 1..Len(s) : s[k] = x})

\* the goroutines of a directory's entries that sent a result
Senders(d) == {p \in Children(d) : task[p].sent # <<>>}

\* the number of metadata entries the goroutines of a set of entries sent
RECURSIVE SentCount(_)
SentCount(T) ==
    IF T = {} THEN 0
    ELSE LET t == CHOOSE x \in T : TRUE IN Len(task[t].sent) + SentCount(T \ {t})

\* C23: a directory's result is empty until SyncDirectory is past its
\* barrier; before that the channel holds the message of every goroutine
\* that sent one exactly once and nothing else; after it the returned
\* sequence holds every metadata entry a goroutine of the directory sent
\* exactly once and nothing else, whatever the order of the sends.
C23_EachResultOnce ==
    \A d \in Dirs :
        /\ frame[d].pc # "returned" =>
              /\ frame[d].metas = <<>>
              /\ Len(frame[d].resultChan) = Cardinality(Senders(d))
              /\ \A p \in Senders(d) : Occurrences(frame[d].resultChan, task[p].sent) = 1
        /\ frame[d].pc = "returned" =>
              /\ Len(frame[d].metas) = SentCount(Senders(d))
              /\ \A p \in Senders(d) : \A k \in 1..Len(task[p].sent) :
                    Occurrences(frame[d].metas, task[p].sent[k]) = 1

\* SyncDirectory of "images" has returned the entries of two goroutines, a
\* file's and a subdirectory's, the subdirectory's sent first although the
\* file comes first in the directory
C23_Witness ==
    /\ frame[ImagesDir].pc = "returned"
    /\ Len(frame[ImagesDir].metas) = 2
    /\ task[SubDir].sent # <<>>
    /\ frame[ImagesDir].metas[1] = task[SubDir].sent[1]
    /\ \E f \in Children(ImagesDir) \cap FilePaths :
          task[f].sent # <<>> /\ frame[ImagesDir].metas[2] = task[f].sent[1]

(***************************************************************************)
(* C24. No deadlock at the barrier.                                        *)
(***************************************************************************)
\* the steps of Run's loop over the roots and of the calls of SyncDirectory
\* it makes
SyncNext ==
    \/ \E d \in Dirs : Enter(d)
    \/ \E d \in Dirs : Loop(d)
    \/ \E f \in Paths : TaskStart(f)
    \/ \E f \in Paths : UploadReturn(f)
    \/ \E f \in Paths : TaskDigest(f)
    \/ \E t \in Paths : TaskDirReturn(t)
    \/ \E d \in Dirs : WaitReturn(d)
    \/ RunCollect

\* what every step of SyncNext changes
syncVars == <<rpc, rootIdx, frame, task>>

\* the runtime runs a goroutine that can take a step, and every call of the
\* gateway and of the file system returns
FairSpec == Init /\ [][SyncNext]_vars /\ WF_syncVars(SyncNext)

\* the channel of every directory has room for one message of each of its
\* goroutines that has not finished, so a goroutine at its send is not
\* blocked
RoomForEverySend ==
    /\ \A d \in Dirs :
          /\ Len(frame[d].resultChan) + frame[d].wg <= frame[d].cap
          /\ frame[d].cap <= Len(Files(d))
    /\ \A f \in FilePaths :
          task[f].st = "digest" => CanSend(ParentOf(f), Digest(f))
    /\ \A t \in Paths \cap Dirs :
          (task[t].st = "spawned" /\ frame[t].pc = "returned")
              => CanSend(ParentOf(t), frame[t].metas)

\* SyncDirectory was called for the directory and has not returned
InSyncDirectory(d) == frame[d].pc \in {"loop", "wait"} \/ (frame[d].pc = "idle" /\ Called(d))

\* C24: in every state the channel of a directory has room for the message
\* of each of its unfinished goroutines, so no goroutine is blocked at its
\* send; and every call of SyncDirectory eventually returns.
C24_NoDeadlockAtBarrier ==
    /\ []RoomForEverySend
    /\ \A d \in Dirs : InSyncDirectory(d) ~> (frame[d].pc = "returned")

\* SyncDirectory of "images" is at its barrier with every goroutine finished
\* and two messages in the channel, none received yet
C24_Witness ==
    /\ frame[ImagesDir].pc = "wait"
    /\ frame[ImagesDir].wg = 0
    /\ Len(frame[ImagesDir].resultChan) = 2

(***************************************************************************)
(* C25. Placeholder aspect ratio.                                          *)
(***************************************************************************)
\* n is an integer nearest to a / b, for positive a and b; a half may go
\* either way
IsNearest(n, a, b) ==
    LET diff == IF a >= n * b THEN a - n * b ELSE n * b - a
    IN  2 * diff <= b

\* C25: the placeholder height of every metadata entry is the original
\* height times BlurWidth over the original width, rounded to the nearest
\* integer.
C25_HeightRoundedToNearest ==
    \A m \in AllMetas :
        IsNearest(m.blurDataURL.height, m.height * BlurWidth, m.width)

(***************************************************************************)
(* C26. No cap on the fan-out.                                             *)
(***************************************************************************)
\* the entries of a directory the loop does not pass over
Spawnable(d) == {p \in Children(d) : ~Skipped(EntryAt(p))}

\* the goroutines of a directory's entries that are started and not finished
InFlight(d) == {p \in Children(d) : task[p].st \in {"spawned", "uploading", "digest"}}

\* the loop and every started goroutine can take their next step
NothingHeldBack ==
    /\ \A d \in Dirs :
          /\ frame[d].pc = "loop" => ENABLED Loop(d)
          /\ frame[d].wg = Cardinality(InFlight(d))
          /\ InFlight(d) \subseteq Spawnable(d)
    /\ \A f \in FilePaths : task[f].st = "spawned" => ENABLED TaskStart(f)
    /\ \A t \in Paths \cap Dirs :
          (task[t].st = "spawned" /\ frame[t].pc = "idle") => ENABLED Enter(t)

\* C26: nothing holds a goroutine back: a directory in its loop can always
\* take its next entry, however many goroutines are in flight, and a
\* goroutine that was started can always take its first step, a file's its
\* read and a subdirectory's its call of SyncDirectory; the goroutines in
\* flight for a directory are bounded by its entries only.
C26_NoFanOutCap == []NothingHeldBack

\* the goroutines of all three non-hidden entries of "images" are in flight
\* at once, and with them the goroutine of the file in its subdirectory
C26_Witness ==
    /\ InFlight(ImagesDir) = Spawnable(ImagesDir)
    /\ Cardinality(InFlight(ImagesDir)) = 3
    /\ InFlight(SubDir) = Spawnable(SubDir)
    /\ Cardinality(InFlight(SubDir)) = 1

(***************************************************************************)
(* C27. Read-only index.                                                   *)
(***************************************************************************)
\* no goroutine of a directory is started before the directory's index is
\* built, and the index is empty until then
IndexBeforeGoroutines ==
    /\ \A p \in Paths : task[p].st # "idle" => frame[ParentOf(p)].listed
    /\ \A d \in Dirs : ~frame[d].listed => (frame[d].awsMetas = {} /\ frame[d].wg = 0)

\* C27: the index of a directory is built before any goroutine of the
\* directory is started, and no step after that changes it while the call
\* of SyncDirectory lasts: the goroutines only read it, and the lookup of an
\* absent key does not add the key.
C27_ReadOnlyIndex ==
    /\ []IndexBeforeGoroutines
    /\ [][\A d \in Dirs :
             (frame[d].listed /\ frame'[d].listed)
                 => frame'[d].awsMetas = frame[d].awsMetas]_vars

\* a goroutine looked up a key that is absent from an index that holds
\* other keys, and went on to upload its file; the index still does not
\* hold the key
C27_Witness ==
    \E f \in FilePaths :
        /\ task[f].called = 1
        /\ frame[ParentOf(f)].awsMetas # {}
        /\ \A o \in frame[ParentOf(f)].awsMetas :
              o.key # UploadKey(f) /\ TrimSlash(o.key) # UploadKey(f)

(***************************************************************************)
(* C28. The manifest is always an array.                                   *)
(***************************************************************************)
\* C28: the body of every manifest that is put is a JSON array, the empty
\* array when the run produced no metadata.
C28_ManifestIsArray ==
    manifest.puts > 0 => manifest.body.json = "array"

(***************************************************************************)
(* C29. Each file's goroutine works on its own entry.                      *)
(***************************************************************************)
\* the file has a sibling of another size and another name, so that taking
\* the sibling's entry for the file's would show
HasDifferentSibling(f) ==
    \E g \in Siblings(f) \cap FilePaths :
        EntryAt(g).size # EntryAt(f).size /\ EntryAt(g).name # EntryAt(f).name

====
